---- MODULE Spec2Model ----
(***************************************************************************)
(* Model of encoding.c: checkEncoding (the byte-by-byte encoding           *)
(* classifier) and main (the command-line loop that calls it for standard  *)
(* input or for every named file).                                         *)
(***************************************************************************)
EXTENDS Integers, Sequences, FiniteSets, TLC

(***************************************************************************)
(* Bounds of the model.                                                    *)
(***************************************************************************)
\* largest argc explored (argv[0] plus up to MaxArgc - 1 named inputs)
MaxArgc == 3
\* longest stream explored
MaxLen == 3

\* the bytes streams are made of: 0x00 (NUL, ASCII), 0x80 (continuation, C1
\* range), 0xC3 (110xxxxx), 0xE0, 0xE2 (1110xxxx), 0xF1 (11110xxx)
RepBytes == {0, 128, 195, 224, 226, 241}

\* after one of these prefixes (nothing pending, or 1, 2, 3 continuation bytes
\* pending) a stream may also end in any byte 0..255
WidePrefixes == {<<>>, <<195>>, <<224>>, <<241>>}

Front(s) == SubSeq(s, 1, Len(s) - 1)

\* the streams the model feeds to checkEncoding
InputOK(s) ==
    /\ Len(s) <= MaxLen
    /\ \/ \A k \in 1..Len(s) : s[k] \in RepBytes
       \/ Len(s) > 0 /\ Front(s) \in WidePrefixes /\ s[Len(s)] \in 0..255

(***************************************************************************)
(* Constants of the program.                                               *)
(***************************************************************************)
EOF == -1

mask_UTF8trailer == 192
bits_UTF8trailer == 128
mask_UTF8leader1 == 224
bits_UTF8leader1 == 192
mask_UTF8leader2 == 239
bits_UTF8leader2 == 224
mask_UTF8leader3 == 248
bits_UTF8leader3 == 240

(***************************************************************************)
(* C's bitwise & on non-negative ints.                                     *)
(***************************************************************************)
RECURSIVE And(_, _)
And(x, y) ==
    IF x = 0 \/ y = 0 THEN 0
    ELSE (IF x % 2 = 1 /\ y % 2 = 1 THEN 1 ELSE 0) + 2 * And(x \div 2, y \div 2)

VARIABLES
    argc,          \* main's argc
    pc,            \* "start", "loop" (head of the for loop), "scan" (in the
                   \* while loop), "ret" (checkEncoding returned), "exit"
    i,             \* main's loop index
    printName,     \* main's printName
    retCode,       \* main's retCode
    size,          \* number of bytes in the open stream
    consumed,      \* the bytes fgetc has returned from the open stream so far
    utf8Length,    \* checkEncoding's locals
    validLatin1,
    validUTF8,
    nonASCII,
    stdout,        \* what was written to stdout, in order
    stderr,        \* the argv indexes named in "Cannot open" messages
    fopenLog       \* the fopen calls made, in order, with their outcome

vars == <<argc, pc, i, printName, retCode, size, consumed,
          utf8Length, validLatin1, validUTF8, nonASCII, stdout, stderr, fopenLog>>

mainVars == <<argc, i, printName, retCode>>
localVars == <<utf8Length, validLatin1, validUTF8, nonASCII>>

Label(k) == [kind |-> "label", name |-> k, text |-> ""]
Line(v) == [kind |-> "verdict", name |-> 0, text |-> v]

\* the locals of checkEncoding as one value
Locals == [utf8Length |-> utf8Length, validLatin1 |-> validLatin1,
           validUTF8 |-> validUTF8, nonASCII |-> nonASCII]

\* the declarations with initialisers at the top of checkEncoding; old is
\* whatever the storage held before the call
EnterLocals_stale(old) == old
EnterLocals(old) ==
    [utf8Length |-> 0, validLatin1 |-> 1, validUTF8 |-> 1, nonASCII |-> 0]

\* a = a & 0xff
Mask8(a) == And(a, 255)

\* variant of the chain in which a continuation byte ends the sequence
\* whatever is still pending (utf8Length = 0 for utf8Length--)
Utf8Step_contCloses(l, a) ==
    IF And(a, mask_UTF8trailer) = bits_UTF8trailer THEN
        IF l.utf8Length = 0 THEN [l EXCEPT !.validUTF8 = 0]
        ELSE [l EXCEPT !.utf8Length = 0]
    ELSE IF And(a, mask_UTF8leader1) = bits_UTF8leader1 THEN
        IF l.utf8Length # 0 THEN [l EXCEPT !.validUTF8 = 0]
        ELSE [l EXCEPT !.utf8Length = 1]
    ELSE IF And(a, mask_UTF8leader2) = bits_UTF8leader2 THEN
        IF l.utf8Length # 0 THEN [l EXCEPT !.validUTF8 = 0]
        ELSE [l EXCEPT !.utf8Length = 2]
    ELSE IF And(a, mask_UTF8leader3) = bits_UTF8leader3 THEN
        IF l.utf8Length # 0 THEN [l EXCEPT !.validUTF8 = 0]
        ELSE [l EXCEPT !.utf8Length = 3]
    ELSE [l EXCEPT !.validUTF8 = 0]

\* the if / else-if chain on the non-ASCII byte a: the new (validUTF8, utf8Length)
Utf8Step(l, a) ==
    IF And(a, mask_UTF8trailer) = bits_UTF8trailer THEN
        IF l.utf8Length = 0 THEN [l EXCEPT !.validUTF8 = 0]
        ELSE [l EXCEPT !.utf8Length = l.utf8Length - 1]
    ELSE IF And(a, mask_UTF8leader1) = bits_UTF8leader1 THEN
        IF l.utf8Length # 0 THEN [l EXCEPT !.validUTF8 = 0]
        ELSE [l EXCEPT !.utf8Length = 1]
    ELSE IF And(a, mask_UTF8leader2) = bits_UTF8leader2 THEN
        IF l.utf8Length # 0 THEN [l EXCEPT !.validUTF8 = 0]
        ELSE [l EXCEPT !.utf8Length = 2]
    ELSE IF And(a, mask_UTF8leader3) = bits_UTF8leader3 THEN
        IF l.utf8Length # 0 THEN [l EXCEPT !.validUTF8 = 0]
        ELSE [l EXCEPT !.utf8Length = 3]
    ELSE [l EXCEPT !.validUTF8 = 0]

\* the templates whose (mask, bits) pair the byte a matches, each test of the
\* chain taken on its own
Templates(a) ==
    {t \in {"trailer", "leader1", "leader2", "leader3"} :
        \/ t = "trailer" /\ And(a, mask_UTF8trailer) = bits_UTF8trailer
        \/ t = "leader1" /\ And(a, mask_UTF8leader1) = bits_UTF8leader1
        \/ t = "leader2" /\ And(a, mask_UTF8leader2) = bits_UTF8leader2
        \/ t = "leader3" /\ And(a, mask_UTF8leader3) = bits_UTF8leader3}

\* variants of the Latin-1 test: the flag assigned on every byte; <= for <
Latin1Step_assign(l, a) == [l EXCEPT !.validLatin1 = IF a < 160 THEN 0 ELSE 1]
Latin1Step_le(l, a) == IF a <= 160 THEN [l EXCEPT !.validLatin1 = 0] ELSE l

\* if (a < 0xa0) validLatin1 = 0
Latin1Step(l, a) == IF a < 160 THEN [l EXCEPT !.validLatin1 = 0] ELSE l

\* variants of the loop body: an ASCII byte inside a sequence is ignored;
\* it clears validUTF8 but leaves utf8Length; the Latin-1 test is made on
\* every byte, not only in the else branch
LoopBody_asciiSkip(l, r) ==
    LET a == Mask8(r) IN
    IF And(a, 128) = 0 THEN l
    ELSE Utf8Step(Latin1Step([l EXCEPT !.nonASCII = 1], a), a)
LoopBody_noReset(l, r) ==
    LET a == Mask8(r) IN
    IF And(a, 128) = 0 THEN
        IF l.utf8Length # 0 THEN [l EXCEPT !.validUTF8 = 0]
        ELSE l
    ELSE Utf8Step(Latin1Step([l EXCEPT !.nonASCII = 1], a), a)
LoopBody_latin1All(l, r) ==
    LET a == Mask8(r) IN
    IF And(a, 128) = 0 THEN
        IF l.utf8Length # 0
            THEN Latin1Step([l EXCEPT !.validUTF8 = 0, !.utf8Length = 0], a)
            ELSE Latin1Step(l, a)
    ELSE Utf8Step(Latin1Step([l EXCEPT !.nonASCII = 1], a), a)

\* the body of the while loop for the value r returned by fgetc
LoopBody(l, r) ==
    LET a == Mask8(r) IN
    IF And(a, 128) = 0 THEN
        IF l.utf8Length # 0 THEN [l EXCEPT !.validUTF8 = 0, !.utf8Length = 0]
        ELSE l
    ELSE Utf8Step(Latin1Step([l EXCEPT !.nonASCII = 1], a), a)

\* variant of the printf chain without the validLatin1 test
Resolve_noLatin1Test(l) ==
    IF l.nonASCII = 0 THEN "ASCII"
    ELSE IF l.validUTF8 # 0 THEN "UTF8"
    ELSE "Latin1"

\* variant of the printf chain without the nonASCII test
Resolve_noAsciiTest(l) ==
    IF l.validUTF8 # 0 THEN "UTF8"
    ELSE IF l.validLatin1 # 0 THEN "Latin1"
    ELSE "Unknown"

\* the printf chain after the loop
Resolve(l) ==
    IF l.nonASCII = 0 THEN "ASCII"
    ELSE IF l.validUTF8 # 0 THEN "UTF8"
    ELSE IF l.validLatin1 # 0 THEN "Latin1"
    ELSE "Unknown"

\* variant of the loop condition that also stops at a NUL byte
IsEOF_nul(r) == r <= 0

\* the loop condition (a = fgetc(file)) != EOF, negated
IsEOF(r) == r = EOF

\* what fgetc can return: EOF when the stream is exhausted, else its next byte
FgetcResults ==
    IF Len(consumed) >= size THEN {EOF}
    ELSE IF Len(consumed) + 1 = size /\ consumed \in WidePrefixes THEN 0..255
    ELSE RepBytes

\* the stream after fgetc returned r
Fgetc(r) == IF r = EOF THEN consumed ELSE Append(consumed, r)

\* variant: argc >= 2
PrintNameFor_ge(n) == IF n >= 2 THEN 1 ELSE 0

\* if (argc > 2) printName = 1
PrintNameFor(n) == IF n > 2 THEN 1 ELSE 0

Init ==
    /\ argc \in 1..MaxArgc
    /\ pc = "start"
    /\ i = 0
    /\ printName = 0
    /\ retCode = 0
    /\ size = 0
    /\ consumed = <<>>
    /\ utf8Length = 0
    /\ validLatin1 = 1
    /\ validUTF8 = 1
    /\ nonASCII = 0
    /\ stdout = <<>>
    /\ stderr = <<>>
    /\ fopenLog = <<>>

\* entry of checkEncoding on a stream of n bytes
Call(n) ==
    /\ size' = n
    /\ consumed' = <<>>
    /\ LET l == EnterLocals(Locals) IN
        /\ utf8Length' = l.utf8Length
        /\ validLatin1' = l.validLatin1
        /\ validUTF8' = l.validUTF8
        /\ nonASCII' = l.nonASCII
    /\ pc' = "scan"

\* argc == 1: checkEncoding(stdin)
MainStdin ==
    /\ pc = "start"
    /\ argc = 1
    /\ \E n \in 0..MaxLen : Call(n)
    /\ UNCHANGED <<mainVars, stdout, stderr, fopenLog>>

\* argc > 1: set printName and enter the for loop
MainArgs ==
    /\ pc = "start"
    /\ argc # 1
    /\ printName' = PrintNameFor(argc)
    /\ i' = 1
    /\ pc' = "loop"
    /\ UNCHANGED <<argc, retCode, size, consumed, localVars, stdout, stderr, fopenLog>>

\* variant of the failure branch that leaves the loop (break for continue)
OpenFail_break ==
    /\ pc = "loop"
    /\ i < argc
    /\ fopenLog' = Append(fopenLog, [arg |-> i, ok |-> FALSE])
    /\ stderr' = Append(stderr, i)
    /\ retCode' = 1
    /\ i' = argc
    /\ UNCHANGED <<argc, pc, printName, size, consumed, localVars, stdout>>

\* variant of the failure branch with the label printed before the test of
\* fopen's result
OpenFail_label ==
    /\ pc = "loop"
    /\ i < argc
    /\ fopenLog' = Append(fopenLog, [arg |-> i, ok |-> FALSE])
    /\ stdout' = IF printName # 0 THEN Append(stdout, Label(i)) ELSE stdout
    /\ stderr' = Append(stderr, i)
    /\ retCode' = 1
    /\ i' = i + 1
    /\ UNCHANGED <<argc, pc, printName, size, consumed, localVars>>

\* fopen fails: message, retCode = 1, continue
OpenFail ==
    /\ pc = "loop"
    /\ i < argc
    /\ fopenLog' = Append(fopenLog, [arg |-> i, ok |-> FALSE])
    /\ stderr' = Append(stderr, i)
    /\ retCode' = 1
    /\ i' = i + 1
    /\ UNCHANGED <<argc, pc, printName, size, consumed, localVars, stdout>>

\* fopen succeeds: optional label, then checkEncoding(file) starts
OpenOk ==
    /\ pc = "loop"
    /\ i < argc
    /\ fopenLog' = Append(fopenLog, [arg |-> i, ok |-> TRUE])
    /\ stdout' = IF printName # 0 THEN Append(stdout, Label(i)) ELSE stdout
    /\ \E n \in 0..MaxLen : Call(n)
    /\ UNCHANGED <<mainVars, stderr>>

\* one iteration of the while loop: fgetc returned a byte
ReadByte ==
    /\ pc = "scan"
    /\ \E r \in FgetcResults :
        /\ ~IsEOF(r)
        /\ consumed' = Fgetc(r)
        /\ LET l == LoopBody(Locals, r) IN
            /\ utf8Length' = l.utf8Length
            /\ validLatin1' = l.validLatin1
            /\ validUTF8' = l.validUTF8
            /\ nonASCII' = l.nonASCII
    /\ UNCHANGED <<mainVars, pc, size, stdout, stderr, fopenLog>>

\* the while loop ends: print the verdict and return 0
ReadEOF ==
    /\ pc = "scan"
    /\ \E r \in FgetcResults :
        /\ IsEOF(r)
        /\ consumed' = Fgetc(r)
    /\ stdout' = Append(stdout, Line(Resolve(Locals)))
    /\ pc' = "ret"
    /\ UNCHANGED <<mainVars, size, localVars, stderr, fopenLog>>

\* back in main after checkEncoding(stdin): return retCode
StdinDone ==
    /\ pc = "ret"
    /\ argc = 1
    /\ pc' = "exit"
    /\ UNCHANGED <<mainVars, size, consumed, localVars, stdout, stderr, fopenLog>>

\* back in the for loop after checkEncoding(file): fclose(file), i++
Fclose ==
    /\ pc = "ret"
    /\ argc # 1
    /\ size' = 0
    /\ consumed' = <<>>
    /\ i' = i + 1
    /\ pc' = "loop"
    /\ UNCHANGED <<argc, printName, retCode, localVars, stdout, stderr, fopenLog>>

\* the for loop ends: return retCode
Exit ==
    /\ pc = "loop"
    /\ i >= argc
    /\ pc' = "exit"
    /\ UNCHANGED <<mainVars, size, consumed, localVars, stdout, stderr, fopenLog>>

Next ==
    \/ MainStdin
    \/ MainArgs
    \/ OpenFail
    \/ OpenOk
    \/ ReadByte
    \/ ReadEOF
    \/ StdinDone
    \/ Fclose
    \/ Exit

Spec == Init /\ [][Next]_vars

\* the program is sequential and always takes its next step
FairSpec == Spec /\ WF_vars(Next)

TypeOK ==
    /\ argc \in 1..MaxArgc
    /\ pc \in {"start", "loop", "scan", "ret", "exit"}
    /\ utf8Length \in 0..3
    /\ validLatin1 \in {0, 1}
    /\ validUTF8 \in {0, 1}
    /\ nonASCII \in {0, 1}
    /\ retCode \in {0, 1}
    /\ InputOK(consumed)
    /\ Len(consumed) <= size

(***************************************************************************)
(* Vocabulary of the properties.                                           *)
(***************************************************************************)
\* checkEncoding has just returned: consumed is the whole stream it was given
\* and the last line of stdout is its verdict
Returned == pc = "ret"
Verdict == stdout[Len(stdout)].text

IsAscii(b) == b < 128
IsCont(b) == b \in 128..191
\* continuation bytes declared by a leader byte, 0 for any other byte
Declared(b) ==
    IF b \in 192..223 THEN 1
    ELSE IF b \in 224..239 THEN 2
    ELSE IF b \in 240..247 THEN 3
    ELSE 0

HasHigh(s) == \E k \in 1..Len(s) : s[k] >= 128

\* s[k] is a leader followed by exactly the continuation bytes it declares
Complete(s, k) ==
    /\ Declared(s[k]) > 0
    /\ k + Declared(s[k]) <= Len(s)
    /\ \A j \in 1..Declared(s[k]) : IsCont(s[k + j])

\* s from position k on is a run of ASCII bytes and complete sequences
RECURSIVE WellFormedFrom(_, _)
WellFormedFrom(s, k) ==
    IF k > Len(s) THEN TRUE
    ELSE IF IsAscii(s[k]) THEN WellFormedFrom(s, k + 1)
    ELSE Complete(s, k) /\ WellFormedFrom(s, k + Declared(s[k]) + 1)

WellFormed(s) == WellFormedFrom(s, 1)

\* some leader of s is followed by fewer continuation bytes than it declares
Truncated(s) == \E k \in 1..Len(s) : Declared(s[k]) > 0 /\ ~Complete(s, k)

\* some sequence of s is an overlong form
Overlong(s) ==
    \E k \in 1..Len(s) :
        \/ s[k] \in {192, 193}
        \/ k < Len(s) /\ s[k] = 224 /\ s[k + 1] \in 128..159
        \/ k < Len(s) /\ s[k] = 240 /\ s[k + 1] \in 128..143

\* the state every run is to start from
Fresh == [utf8Length |-> 0, validLatin1 |-> 1, validUTF8 |-> 1, nonASCII |-> 0]

\* the locals after the loop body has run on s[1..k] from the fresh state
RECURSIVE Scan(_, _)
Scan(s, k) == IF k = 0 THEN Fresh ELSE LoopBody(Scan(s, k - 1), s[k])

Lines == {k \in 1..Len(stdout) : stdout[k].kind = "verdict"}
Labels == {k \in 1..Len(stdout) : stdout[k].kind = "label"}
Opened == {k \in 1..Len(fopenLog) : fopenLog[k].ok}
Failed == {k \in 1..Len(fopenLog) : ~fopenLog[k].ok}

(***************************************************************************)
(* Properties.                                                             *)
(***************************************************************************)

\* C1: every well-formed UTF-8 stream with at least one byte >= 0x80 gets
\* the verdict UTF8.
C1_WellFormedIsUTF8 ==
    (Returned /\ HasHigh(consumed) /\ WellFormed(consumed)) => Verdict = "UTF8"

\* C2: the verdict UTF8 is produced only if at end of stream validUTF8 is
\* true and no continuation byte is pending; the stream [0xC3] yields Latin1.
C2_UTF8OnlyIfNothingPending ==
    /\ (Returned /\ Verdict = "UTF8") => (validUTF8 # 0 /\ utf8Length = 0)
    /\ (Returned /\ consumed = <<195>>) => Verdict = "Latin1"

\* C3: every stream whose bytes are all < 0x80, the empty stream and streams
\* with 0x00 included, gets the verdict ASCII.
C3_AsciiOnly ==
    (Returned /\ \A k \in 1..Len(consumed) : consumed[k] < 128) => Verdict = "ASCII"

C3_Witness ==
    /\ Returned
    /\ consumed = <<0, 0, 0>>
    /\ Verdict = "ASCII"

\* C4: a stream with a truncated or an overlong sequence anywhere never gets
\* the verdict UTF8.
C4_IllFormedNeverUTF8 ==
    (Returned /\ (Truncated(consumed) \/ Overlong(consumed))) => Verdict # "UTF8"

\* C5: within a run, validUTF8 and validLatin1 never go from false back to
\* true and nonASCII never goes from true back to false.
C5_Monotonic ==
    [][pc = "scan" =>
          /\ (validUTF8 = 0 => validUTF8' = 0)
          /\ (validLatin1 = 0 => validLatin1' = 0)
          /\ (nonASCII # 0 => nonASCII' # 0)]_vars

C5_Witness ==
    /\ pc = "scan"
    /\ consumed = <<128, 195, 128>>
    /\ validUTF8 = 0
    /\ validLatin1 = 0
    /\ nonASCII = 1

\* C6: every run starts from the fresh state and its verdict is the one the
\* scan of its own bytes from the fresh state gives, whatever came before.
C6_Isolation ==
    /\ (pc = "scan" /\ consumed = <<>>) => Locals = Fresh
    /\ pc = "scan" => Locals = Scan(consumed, Len(consumed))
    /\ Returned => Verdict = Resolve(Scan(consumed, Len(consumed)))

C6_Witness ==
    /\ Returned
    /\ i = 2
    /\ Len(stdout) = 4
    /\ stdout[2].text = "Unknown"
    /\ consumed = <<195, 128>>
    /\ Verdict = "UTF8"

\* C7: a run consumes every byte of its stream once, prints exactly one of the
\* four verdicts, prints it only when the stream is exhausted, and ends.
C7_Safety ==
    /\ Len(consumed) <= size
    /\ Returned => Len(consumed) = size
    /\ \A k \in Lines : stdout[k].text \in {"ASCII", "UTF8", "Latin1", "Unknown"}
    /\ Cardinality(Lines) =
          (IF argc = 1 THEN (IF pc = "start" THEN 0 ELSE 1) ELSE Cardinality(Opened))
          - (IF pc = "scan" THEN 1 ELSE 0)

C7_Totality == []C7_Safety /\ <>(pc = "exit")

C7_Witness ==
    /\ pc = "exit"
    /\ argc = 3
    /\ Cardinality(Lines) = 2
    /\ stdout[2].text = "ASCII"
    /\ stdout[4].text = "Unknown"

\* C8: a one-byte stream b yields Unknown for b in 0x80..0x9F, Latin1 for b
\* in 0xA0..0xBF, and Latin1 for b = 0xE9.
C8_SingleByte ==
    (Returned /\ Len(consumed) = 1) =>
        /\ consumed[1] \in 128..159 => Verdict = "Unknown"
        /\ consumed[1] \in 160..191 => Verdict = "Latin1"
        /\ consumed[1] = 233 => Verdict = "Latin1"

C8_Witness ==
    /\ Returned
    /\ consumed = <<233>>
    /\ Verdict = "Latin1"

\* C9: every named input is passed to fopen, in command-line order, whatever
\* opens fail, and the exit status is nonzero iff some open failed.
C9_CliLoop ==
    /\ \A k \in 1..Len(fopenLog) : fopenLog[k].arg = k
    /\ pc = "exit" =>
        /\ Len(fopenLog) = argc - 1
        /\ retCode # 0 <=> Failed # {}

C9_Witness ==
    /\ pc = "exit"
    /\ argc = 3
    /\ Failed = {1}
    /\ Opened = {2}
    /\ retCode = 1

\* C10: labels are printed only when more than one input is named; one named
\* input gets no label, and without named inputs stdin is classified once
\* with no label.
C10_Labels ==
    /\ argc <= 2 => Labels = {}
    /\ argc > 2 => \A k \in Lines : k > 1 /\ stdout[k - 1].kind = "label"
    /\ (argc = 1 /\ pc = "exit") =>
          (Len(stdout) = 1 /\ Lines = {1} /\ fopenLog = <<>>)

C10_Witness ==
    /\ pc = "exit"
    /\ argc = 2
    /\ Opened = {1}
    /\ Len(stdout) = 1
    /\ Lines = {1}

\* the last byte consumed in the current run
LastByte == consumed[Len(consumed)]
\* a step of the while loop that consumed the byte b
Consumes(b) == pc = "scan" /\ pc' = "scan" /\ consumed' = Append(consumed, b)

\* the chain of Utf8Step with its tests taken in the opposite order
Utf8StepReversed(l, a) ==
    IF And(a, mask_UTF8leader3) = bits_UTF8leader3 THEN
        IF l.utf8Length # 0 THEN [l EXCEPT !.validUTF8 = 0]
        ELSE [l EXCEPT !.utf8Length = 3]
    ELSE IF And(a, mask_UTF8leader2) = bits_UTF8leader2 THEN
        IF l.utf8Length # 0 THEN [l EXCEPT !.validUTF8 = 0]
        ELSE [l EXCEPT !.utf8Length = 2]
    ELSE IF And(a, mask_UTF8leader1) = bits_UTF8leader1 THEN
        IF l.utf8Length # 0 THEN [l EXCEPT !.validUTF8 = 0]
        ELSE [l EXCEPT !.utf8Length = 1]
    ELSE IF And(a, mask_UTF8trailer) = bits_UTF8trailer THEN
        IF l.utf8Length = 0 THEN [l EXCEPT !.validUTF8 = 0]
        ELSE [l EXCEPT !.utf8Length = l.utf8Length - 1]
    ELSE [l EXCEPT !.validUTF8 = 0]

\* C11: every byte >= 0x80 matches at most one of the four (mask, bits)
\* templates (none being the fifth case), so the result of the chain does not
\* depend on the order of its tests.
C11_TemplatesDisjoint ==
    (pc \in {"scan", "ret"} /\ Len(consumed) > 0 /\ LastByte >= 128) =>
        /\ Cardinality(Templates(LastByte)) <= 1
        /\ \A n \in 0..3 :
              LET l == [Fresh EXCEPT !.utf8Length = n] IN
              Utf8Step(l, LastByte) = Utf8StepReversed(l, LastByte)

\* C12: a byte 0xE0..0xEF consumed with nothing pending sets utf8Length to 2
\* and leaves validUTF8 alone; consumed with something pending it clears
\* validUTF8.
C12_Leader2Step ==
    [][\A b \in 224..239 : Consumes(b) =>
          /\ utf8Length = 0 => (utf8Length' = 2 /\ validUTF8' = validUTF8)
          /\ utf8Length # 0 => validUTF8' = 0]_vars

\* C13: a byte 0xF0..0xF7 consumed with nothing pending sets utf8Length to 3
\* and leaves validUTF8 alone; consumed with something pending it clears
\* validUTF8.
C13_Leader3Step ==
    [][\A b \in 240..247 : Consumes(b) =>
          /\ utf8Length = 0 => (utf8Length' = 3 /\ validUTF8' = validUTF8)
          /\ utf8Length # 0 => validUTF8' = 0]_vars

\* C14: a byte 0x80..0xBF consumed with nothing pending clears validUTF8 and
\* leaves utf8Length at 0; consumed with something pending it decrements
\* utf8Length by one and leaves validUTF8 alone.
C14_ContinuationStep ==
    [][\A b \in 128..191 : Consumes(b) =>
          /\ utf8Length = 0 => (validUTF8' = 0 /\ utf8Length' = 0)
          /\ utf8Length # 0 =>
                (utf8Length' = utf8Length - 1 /\ validUTF8' = validUTF8)]_vars

C14_Witness ==
    /\ pc = "scan"
    /\ consumed = <<241, 191>>
    /\ utf8Length = 2
    /\ validUTF8 = 1

\* C15: a byte < 0x80 consumed with something pending clears validUTF8 and
\* resets utf8Length to 0; the stream [0xC3, 0x28] yields Latin1.
C15_AsciiInsideSequence ==
    /\ [][\A b \in 0..127 : (Consumes(b) /\ utf8Length # 0) =>
             (validUTF8' = 0 /\ utf8Length' = 0)]_vars
    /\ []((Returned /\ consumed = <<195, 40>>) => Verdict = "Latin1")

C15_Witness ==
    /\ Returned
    /\ consumed = <<195, 40>>
    /\ utf8Length = 0
    /\ validUTF8 = 0
    /\ Verdict = "Latin1"

\* C16: a byte < 0x80 consumed with nothing pending changes none of the four
\* locals, and a byte < 0x80 never changes validLatin1 or nonASCII.
C16_AsciiFrame ==
    [][\A b \in 0..127 : Consumes(b) =>
          /\ utf8Length = 0 => UNCHANGED localVars
          /\ UNCHANGED <<validLatin1, nonASCII>>]_vars

C16_Witness ==
    /\ pc = "scan"
    /\ consumed = <<195, 128, 0>>
    /\ Locals = [utf8Length |-> 0, validLatin1 |-> 0, validUTF8 |-> 1, nonASCII |-> 1]

\* the current run has consumed a byte of the C1 range 0x80..0x9F
SawC1 == \E k \in 1..Len(consumed) : consumed[k] \in 128..159
InRun == pc \in {"scan", "ret"}

\* C17: at every point of a run validLatin1 is false iff a byte 0x80..0x9F has
\* been consumed so far; bytes 0xA0..0xFF never clear it.
C17_Latin1Boundary == InRun => (validLatin1 = 0 <=> SawC1)

C17_Witness ==
    /\ pc = "scan"
    /\ consumed = <<241, 159>>
    /\ utf8Length = 2
    /\ validLatin1 = 0

\* the continuation bytes consumed after position k
ContsAfter(k) == {j \in (k + 1)..Len(consumed) : IsCont(consumed[j])}

\* C18: utf8Length is always within 0..3; it is 0 when a run starts and right
\* after a byte < 0x80, and it is nonzero only when a leader has been consumed
\* that was not yet followed by as many continuation bytes as it declares.
C18_PendingRange ==
    /\ utf8Length \in 0..3
    /\ (pc = "scan" /\ consumed = <<>>) => utf8Length = 0
    /\ (InRun /\ Len(consumed) > 0 /\ LastByte < 128) => utf8Length = 0
    /\ (InRun /\ utf8Length # 0) =>
          \E k \in 1..Len(consumed) :
              /\ Declared(consumed[k]) > 0
              /\ \A j \in (k + 1)..Len(consumed) : ~IsAscii(consumed[j])
              /\ Cardinality(ContsAfter(k)) < Declared(consumed[k])

C18_Witness ==
    /\ pc = "scan"
    /\ consumed = <<0, 241, 128>>
    /\ utf8Length = 2

\* C19: the verdict is ASCII iff the stream has no byte >= 0x80; Latin1 only
\* if it has no byte in 0x80..0x9F; Unknown only if it has one.
C19_VerdictPartition ==
    Returned =>
        /\ Verdict = "ASCII" <=> ~HasHigh(consumed)
        /\ Verdict = "Latin1" => ~SawC1
        /\ Verdict = "Unknown" => SawC1

C19_Witness ==
    /\ Returned
    /\ consumed = <<226, 128, 0>>
    /\ Verdict = "Unknown"

\* C20: main writes one verdict line per input opened successfully, in
\* command-line order, and a label only for an opened input, each label being
\* followed at once by that input's verdict.
C20_OutputPairing ==
    /\ (argc > 1 /\ pc \in {"loop", "ret", "exit"}) =>
          Cardinality(Lines) = Cardinality(Opened)
    /\ \A k \in Labels :
          /\ stdout[k].name \in Opened
          /\ k < Len(stdout) => stdout[k + 1].kind = "verdict"
          /\ k = Len(stdout) => (pc = "scan" /\ stdout[k].name = i)
    /\ \A j, k \in Labels : j < k => stdout[j].name < stdout[k].name
    /\ argc > 2 => Cardinality(Labels) = Cardinality(Opened)

C20_Witness ==
    /\ pc = "exit"
    /\ argc = 3
    /\ Failed = {1}
    /\ Opened = {2}
    /\ Len(stdout) = 2
    /\ stdout[1] = Label(2)
    /\ stdout[2].kind = "verdict"
====
